---- MODULE Spec2Model ----
(***************************************************************************)
(* Model of Vector<T, Allocator> (src/vector.h).                           *)
(*                                                                         *)
(* The allocator's heap is a finite table of blocks.  A block records the  *)
(* element count it was allocated with and, per slot, whether the slot is  *)
(* raw memory or holds a constructed element (and which value).  Two       *)
(* Vector objects, 1 and 2, live over that heap; each public member is one *)
(* action which runs the whole member function, including its catch        *)
(* blocks.  The inputs of an action include where, if anywhere, the        *)
(* allocator or an element constructor throws.  alloc_ is a stateless      *)
(* std::allocator and carries no state of its own.                         *)
(***************************************************************************)
EXTENDS Integers, Sequences, FiniteSets

\* ------------------------------------------------------------- bounds
MaxBlocks == 3
MaxCap == 6
MaxSize == 3
PairMaxCap == 4
PairMaxSize == 2

\* ------------------------------------------------------------- values
NULL == 0
Raw == 0
MovedFrom == 3
DefaultVal == 1
Values == {1, 2}
Vecs == {1, 2}
Blocks == 1..MaxBlocks

Other(v) == 3 - v

\* ------------------------------------------------------------- heap
FreeBlock == [n |-> 0, slots |-> <<>>]

IsLive(h, b) == b \in Blocks /\ h[b].n > 0

FreeIds(h) == {b \in Blocks : h[b].n = 0}

LiveIds(h) == {b \in Blocks : h[b].n > 0}

\* Number of constructed elements a block holds.
Constructed(blk) == Cardinality({i \in 1..Len(blk.slots) : blk.slots[i] # Raw})

\* The machine an operation runs on: the heap plus what the operation has
\* done so far (calls made to the allocator, and the misuses it committed).
NewMachine(h) ==
  [h |-> h, na |-> 0, nc |-> 0, nd |-> 0, ndl |-> 0,
   raw |-> FALSE, mis |-> FALSE, dbl |-> FALSE, wild |-> FALSE, lost |-> 0,
   nm |-> 0, cause |-> "none"]

\* AllocTraits::allocate(alloc_, n): a fresh block of n raw slots.
NewBlockId(m) == CHOOSE b \in FreeIds(m.h) : \A c \in FreeIds(m.h) : b <= c

Allocate(m, n) ==
  LET b == NewBlockId(m)
  IN [m EXCEPT !.h[b] = [n |-> n, slots |-> [i \in 1..n |-> Raw]],
               !.na = @ + 1]

\* AllocTraits::allocate that throws: no block is handed out.
AllocateThrows(m) == [m EXCEPT !.cause = "alloc"]

\* AllocTraits::deallocate(alloc_, b, n).  A null block is a no-op.  The
\* block is returned to the allocator; the machine records a block that was
\* not live, a count other than the one it was allocated with, and the
\* constructed elements that went with it.
Deallocate(m, b, n) ==
  IF b = NULL THEN [m EXCEPT !.ndl = @ + 1]
  ELSE IF ~IsLive(m.h, b) THEN [m EXCEPT !.dbl = TRUE, !.ndl = @ + 1]
  ELSE [m EXCEPT !.h[b] = FreeBlock,
                 !.ndl = @ + 1,
                 !.mis = @ \/ (n # m.h[b].n),
                 !.lost = @ + Constructed(m.h[b])]

InBlock(m, b, i) == IsLive(m.h, b) /\ i < m.h[b].n

\* AllocTraits::construct(alloc_, b + i, val), the call that succeeds.
Construct(m, b, i, val) ==
  IF ~InBlock(m, b, i) THEN [m EXCEPT !.wild = TRUE, !.nc = @ + 1]
  ELSE [m EXCEPT !.h[b].slots[i + 1] = val, !.nc = @ + 1]

\* AllocTraits::construct whose element constructor throws: nothing is built.
ConstructThrows(m) == [m EXCEPT !.nc = @ + 1, !.cause = "ctor"]

\* The next construct call is the one that throws.
Throws(m, fail) == fail = m.nc + 1

\* AllocTraits::destroy(alloc_, b + i).
Destroy(m, b, i) ==
  IF ~InBlock(m, b, i) THEN [m EXCEPT !.wild = TRUE, !.nd = @ + 1]
  ELSE IF m.h[b].slots[i + 1] = Raw THEN [m EXCEPT !.raw = TRUE, !.nd = @ + 1]
  ELSE [m EXCEPT !.h[b].slots[i + 1] = Raw, !.nd = @ + 1]

\* *iter for an iterator into block b at index i.
Deref(m, b, i) == IF InBlock(m, b, i) THEN m.h[b].slots[i + 1] ELSE Raw

\* for (i = from; i < to; i++) destroy(alloc_, b + i)
RECURSIVE DestroyRange(_, _, _, _)
DestroyRange(m, b, from, to) ==
  IF from >= to THEN m
  ELSE DestroyRange(Destroy(m, b, from), b, from + 1, to)

\* ------------------------------------------------------------- state
VARIABLES vec, alive, heap, moveSteals, solo, last, log

vars == <<vec, alive, heap, moveSteals, solo, last, log>>

\* T* buffer_{nullptr}; size_t size_{0}; size_t capacity_{0};
EmptyVec == [buffer_ |-> NULL, size_ |-> 0, capacity_ |-> 0]

\* An argument of type const T& : a free-standing value (blk = NULL) or a
\* reference to the element at index i of block blk.
Temp(val) == [blk |-> NULL, i |-> 0, val |-> val]

Ref(b, i) == [blk |-> b, i |-> i, val |-> Raw]

IsRef(arg) == arg.blk # NULL

ArgVal(m, arg) == IF arg.blk = NULL THEN arg.val ELSE Deref(m, arg.blk, arg.i)

\* The elements [0, size_) as the container shows them through operator[].
Elems(h, s) == [i \in 1..s.size_ |->
                  IF IsLive(h, s.buffer_) /\ i <= h[s.buffer_].n
                  THEN h[s.buffer_].slots[i] ELSE Raw]

\* ------------------------------------------------------------- loops
\* for (i = from; i < to; ++i) { construct(alloc_, b + i, arg); ++count; }
RECURSIVE FillLoop(_, _, _, _, _, _, _)
FillLoop(m, b, i, to, arg, count, fail) ==
  IF i >= to THEN [m |-> m, count |-> count, threw |-> FALSE]
  ELSE IF Throws(m, fail)
       THEN [m |-> ConstructThrows(m), count |-> count, threw |-> TRUE]
  ELSE FillLoop(Construct(m, b, i, ArgVal(m, arg)), b, i + 1, to, arg,
                count + 1, fail)

RECURSIVE CopyLoop(_, _, _, _, _)
CopyLoop(m, b, src, curr, fail) ==
  IF curr >= Len(src) THEN [m |-> m, curr |-> curr, threw |-> FALSE]
  ELSE IF Throws(m, fail)
       THEN [m |-> ConstructThrows(m), curr |-> curr, threw |-> TRUE]
  ELSE CopyLoop(Construct(m, b, curr, src[curr + 1]), b, src, curr + 1, fail)

\* CopyIterRange(begin, end): copy-constructs *iter into buffer_ + curr_size;
\* on a throw it destroys what it built and rethrows.
CopyIterRange(m, b, src, fail) ==
  LET r == CopyLoop(m, b, src, 0, fail)
  IN IF r.threw
     THEN [m |-> DestroyRange(r.m, b, 0, r.curr), threw |-> TRUE]
     ELSE [m |-> r.m, threw |-> FALSE]

\* T(T&&) applied to the element at src + i: what is left behind.
MovedOut(m, src, i) ==
  IF moveSteals /\ InBlock(m, src, i)
  THEN [m EXCEPT !.h[src].slots[i + 1] = MovedFrom, !.nm = @ + 1]
  ELSE [m EXCEPT !.nm = @ + 1]

\* T(T&&) that throws: nothing is built and the source keeps its value.
MoveThrows(m) == [m EXCEPT !.nc = @ + 1, !.cause = "move"]

RECURSIVE MoveLoop(_, _, _, _, _, _)
MoveLoop(m, src, n, dst, curr, fail) ==
  IF curr >= n THEN [m |-> m, curr |-> curr, threw |-> FALSE]
  ELSE IF Throws(m, fail)
       THEN [m |-> MoveThrows(m), curr |-> curr, threw |-> TRUE]
  ELSE MoveLoop(MovedOut(Construct(m, dst, curr, Deref(m, src, curr)), src, curr),
                src, n, dst, curr + 1, fail)

\* MoveIterTo filling the new block from its far end: element i of the old
\* block lands at index n - 1 - i.
MoveIterToReversed(m, src, n, dst, fail) ==
  LET r == MoveLoop(m, src, n, dst, 0, fail)
  IN [m |-> [r.m EXCEPT !.h[dst].slots =
                          [i \in 1..Len(@) |->
                             IF i <= r.curr THEN @[r.curr + 1 - i] ELSE @[i]]],
      threw |-> r.threw, curr |-> r.curr]

\* MoveIterTo(begin, end, buffer): move-constructs the n elements of block
\* src into dst in ascending order; its catch block only rethrows.
MoveIterTo(m, src, n, dst, fail) ==
  LET r == MoveLoop(m, src, n, dst, 0, fail)
  IN [m |-> r.m, threw |-> r.threw, curr |-> r.curr]

\* ------------------------------------------------------------- results
Ok(m, s) == [m |-> m, s |-> s, res |-> "ok"]

Threw(m, s) == [m |-> m, s |-> s, res |-> "threw"]

\* ------------------------------------------------------------- constructors
\* catch (...) of every constructor: deallocate(buffer_, capacity_), reset.
CtorCatch(m, b, cap) == Threw(Deallocate(m, b, cap), EmptyVec)

\* Vector(const std::initializer_list<T>&)
VectorInitList(m, lst, afail, fail) ==
  LET n == Len(lst)
  IN IF n = 0 THEN Ok(m, [buffer_ |-> NULL, size_ |-> n, capacity_ |-> n])
     ELSE IF afail THEN CtorCatch(AllocateThrows(m), NULL, n)
     ELSE LET b == NewBlockId(m)
              c == CopyIterRange(Allocate(m, n), b, lst, fail)
          IN IF c.threw THEN CtorCatch(c.m, b, n)
             ELSE Ok(c.m, [buffer_ |-> b, size_ |-> n, capacity_ |-> n])

\* MoveIterRange(begin, end): CopyIterRange over move_iterators.  The elements
\* of an initializer_list are const, so each one is copied.
MoveIterRange(m, b, src, fail) == CopyIterRange(m, b, src, fail)

\* Vector(std::initializer_list<T>&&)
VectorInitListRv(m, lst, afail, fail) ==
  LET n == Len(lst)
  IN IF n = 0 THEN Ok(m, [buffer_ |-> NULL, size_ |-> n, capacity_ |-> n])
     ELSE IF afail THEN CtorCatch(AllocateThrows(m), NULL, n)
     ELSE LET b == NewBlockId(m)
              c == MoveIterRange(Allocate(m, n), b, lst, fail)
          IN IF c.threw THEN CtorCatch(c.m, b, n)
             ELSE Ok(c.m, [buffer_ |-> b, size_ |-> n, capacity_ |-> n])

\* Vector(InputIterator begin, InputIterator end)
VectorRange(m, rng, afail, fail) ==
  LET n == Len(rng)
  IN IF n = 0 THEN Ok(m, [buffer_ |-> NULL, size_ |-> n, capacity_ |-> n * 2])
     ELSE IF afail THEN CtorCatch(AllocateThrows(m), NULL, n * 2)
     ELSE LET b == NewBlockId(m)
              c == CopyIterRange(Allocate(m, n * 2), b, rng, fail)
          IN IF c.threw THEN CtorCatch(c.m, b, n * 2)
             ELSE Ok(c.m, [buffer_ |-> b, size_ |-> n, capacity_ |-> n * 2])

\* A copy constructor that takes over other's members as they are: the new
\* container points at other's block.
VectorCopyShallow(m, o, afail, fail) == Ok(m, o)

\* Vector(const Vector& other)
VectorCopy(m, o, afail, fail) ==
  IF o.size_ = 0
  THEN Ok(m, [buffer_ |-> NULL, size_ |-> o.size_, capacity_ |-> o.capacity_])
  ELSE IF afail THEN CtorCatch(AllocateThrows(m), NULL, o.capacity_)
  ELSE LET b == NewBlockId(m)
           c == CopyIterRange(Allocate(m, o.capacity_), b, Elems(m.h, o), fail)
       IN IF c.threw THEN CtorCatch(c.m, b, o.capacity_)
          ELSE Ok(c.m, [buffer_ |-> b, size_ |-> o.size_,
                        capacity_ |-> o.capacity_])

\* A move constructor that copies other's members without resetting them.
VectorMoveKeepsSource(m, o) == [m |-> m, s |-> o, o |-> o, res |-> "ok"]

\* Vector(Vector&& other) noexcept: o is what other is left with.
VectorMove(m, o) == [m |-> m, s |-> o, o |-> EmptyVec, res |-> "ok"]

\* catch (...) of Vector(size_t) and Vector(size_t, const T&)
SizeCtorCatch(m, b, count, cap) ==
  Threw(Deallocate(DestroyRange(m, b, 0, count), b, cap), EmptyVec)

\* Vector(size_t size, const T& value)
VectorSizeValue(m, n, arg, afail, fail) ==
  IF n = 0 THEN Ok(m, [buffer_ |-> NULL, size_ |-> n, capacity_ |-> n])
  ELSE IF afail THEN SizeCtorCatch(AllocateThrows(m), NULL, 0, n)
  ELSE LET b == NewBlockId(m)
           f == FillLoop(Allocate(m, n), b, 0, n, arg, 0, fail)
       IN IF f.threw THEN SizeCtorCatch(f.m, b, f.count, n)
          ELSE Ok(f.m, [buffer_ |-> b, size_ |-> n, capacity_ |-> n])

\* explicit Vector(size_t size)
VectorSize(m, n, afail, fail) ==
  IF n = 0 THEN Ok(m, [buffer_ |-> NULL, size_ |-> n, capacity_ |-> n])
  ELSE IF afail THEN SizeCtorCatch(AllocateThrows(m), NULL, 0, n)
  ELSE LET b == NewBlockId(m)
           f == FillLoop(Allocate(m, n), b, 0, n, Temp(DefaultVal), 0, fail)
       IN IF f.threw THEN SizeCtorCatch(f.m, b, f.count, n)
          ELSE Ok(f.m, [buffer_ |-> b, size_ |-> n, capacity_ |-> n])

\* ~Vector()
Dtor(m, s) ==
  Ok(Deallocate(DestroyRange(m, s.buffer_, 0, s.size_), s.buffer_, s.capacity_),
     EmptyVec)

\* ------------------------------------------------------------- assignment, swap
\* void Swap(Vector& other) noexcept: s is *this, o is other, afterwards.
Swap(m, s, o) == [m |-> m, s |-> o, o |-> s, res |-> "ok"]

\* operator=(const Vector&) without its catch block: a failure leaves *this
\* with the null buffer_ and zero size_ and capacity_ it was given.
CopyAssignNoRestore(m, s, o, afail, fail) ==
  LET tmp == VectorCopy(m, o, afail, fail)
  IN IF tmp.res = "threw" THEN Threw(tmp.m, EmptyVec)
     ELSE LET sw == Swap(tmp.m, tmp.s, EmptyVec)
              d == Dtor(sw.m, sw.s)
          IN Ok(Deallocate(DestroyRange(d.m, s.buffer_, 0, s.size_),
                           s.buffer_, s.capacity_),
                sw.o)

\* Vector& operator=(const Vector& other), this != &other.  The temporary
\* Vector(other) is swapped into *this and dies holding the empty state that
\* *this was given; then the backed-up elements and block are released.
CopyAssign(m, s, o, afail, fail) ==
  LET backup_buff == s.buffer_
      backup_size == s.size_
      backup_capacity == s.capacity_
      tmp == VectorCopy(m, o, afail, fail)
  IN IF tmp.res = "threw" THEN Threw(tmp.m, s)
     ELSE LET sw == Swap(tmp.m, tmp.s, EmptyVec)
              d == Dtor(sw.m, sw.s)
          IN Ok(Deallocate(DestroyRange(d.m, backup_buff, 0, backup_size),
                           backup_buff, backup_capacity),
                sw.o)

\* Vector& operator=(Vector&& other) noexcept, this != &other.
MoveAssign(m, s, o) ==
  LET tmp == VectorMove(m, o)
      sw == Swap(tmp.m, tmp.s, s)
      d == Dtor(sw.m, sw.s)
  IN [m |-> d.m, s |-> sw.o, o |-> tmp.o, res |-> "ok"]

\* ------------------------------------------------------------- mutators
\* void Clear()
Clear(m, s) ==
  Ok(DestroyRange(m, s.buffer_, 0, s.size_), [s EXCEPT !.size_ = 0])

\* void PopBack()
PopBack(m, s) ==
  IF s.size_ # 0
  THEN Ok(Destroy(m, s.buffer_, s.size_ - 1), [s EXCEPT !.size_ = @ - 1])
  ELSE Ok(m, s)

\* At with the bound test idx > size_.
AtOffByOne(m, s, idx) ==
  IF idx > s.size_ THEN [m |-> m, s |-> s, res |-> "threw", val |-> Raw]
  ELSE [m |-> m, s |-> s, res |-> "ok", val |-> Deref(m, s.buffer_, idx)]

\* ConstReference At(size_t idx) const
At(m, s, idx) ==
  IF idx >= s.size_ THEN [m |-> m, s |-> s, res |-> "threw", val |-> Raw]
  ELSE [m |-> m, s |-> s, res |-> "ok", val |-> Deref(m, s.buffer_, idx)]

\* The shrinking branch of Resize destroying from index n + 1: the element at
\* index n stays behind.
ResizeShrinkKeepsOne(m, s, n) ==
  Ok(DestroyRange(m, s.buffer_, n + 1, s.size_), [s EXCEPT !.size_ = n])

\* Resize: if (size < size_) { destroy [size, size_); size_ = size; }
ResizeShrink(m, s, n) ==
  Ok(DestroyRange(m, s.buffer_, n, s.size_), [s EXCEPT !.size_ = n])

\* The in-place branch of Resize with a catch block that only rethrows: the
\* elements built before the throw stay behind.
ResizeInPlaceNoRollback(m, s, n, arg, fail) ==
  LET f == FillLoop(m, s.buffer_, s.size_, n, arg, 0, fail)
  IN IF f.threw THEN Threw(f.m, s) ELSE Ok(f.m, [s EXCEPT !.size_ = n])

\* Resize: if (size <= capacity_): construct [size_, size) in place; the catch
\* block destroys the count elements it built.
ResizeInPlace(m, s, n, arg, fail) ==
  LET f == FillLoop(m, s.buffer_, s.size_, n, arg, 0, fail)
  IN IF f.threw
     THEN Threw(DestroyRange(f.m, s.buffer_, s.size_, s.size_ + f.count), s)
     ELSE Ok(f.m, [s EXCEPT !.size_ = n])

\* The growing branch of Resize with a block of exactly size slots in place
\* of size * 2.
ResizeGrowExact(m, s, n, arg, afail, fail) ==
  IF afail THEN Threw(AllocateThrows(m), s)
  ELSE
    LET new_buff == NewBlockId(m)
        f == FillLoop(Allocate(m, n), new_buff, s.size_, n, arg, 0, fail)
        mv == MoveIterTo(f.m, s.buffer_, s.size_, new_buff, fail)
        bad == IF f.threw THEN f.m ELSE mv.m
    IN IF f.threw \/ mv.threw
       THEN Threw(Deallocate(DestroyRange(bad, new_buff, s.size_,
                                          s.size_ + f.count),
                             new_buff, s.capacity_),
                  s)
       ELSE Ok(Deallocate(DestroyRange(mv.m, s.buffer_, 0, s.size_),
                          s.buffer_, s.capacity_),
               [buffer_ |-> new_buff, size_ |-> n, capacity_ |-> n])

\* Resize: if (size > capacity_): allocate(size * 2) outside the try block,
\* construct the tail [size_, size) in the new block, migrate, release the old
\* block.  The catch block destroys the tail it built and deallocates the new
\* block passing capacity_, the capacity of the old block.
ResizeGrow(m, s, n, arg, afail, fail) ==
  IF afail THEN Threw(AllocateThrows(m), s)
  ELSE
    LET new_buff == NewBlockId(m)
        f == FillLoop(Allocate(m, n * 2), new_buff, s.size_, n, arg, 0, fail)
        mv == MoveIterTo(f.m, s.buffer_, s.size_, new_buff, fail)
        bad == IF f.threw THEN f.m ELSE mv.m
    IN IF f.threw \/ mv.threw
       THEN Threw(Deallocate(DestroyRange(bad, new_buff, s.size_,
                                          s.size_ + f.count),
                             new_buff, s.capacity_),
                  s)
       ELSE Ok(Deallocate(DestroyRange(mv.m, s.buffer_, 0, s.size_),
                          s.buffer_, s.capacity_),
               [buffer_ |-> new_buff, size_ |-> n, capacity_ |-> n * 2])

\* void Resize(size_t size, const T& value)
ResizeValue(m, s, n, arg, afail, fail) ==
  IF n = s.size_ THEN Ok(m, s)
  ELSE IF n < s.size_ THEN ResizeShrink(m, s, n)
  ELSE IF n <= s.capacity_ THEN ResizeInPlace(m, s, n, arg, fail)
  ELSE ResizeGrow(m, s, n, arg, afail, fail)

\* void Resize(size_t size)
Resize(m, s, n, afail, fail) ==
  IF n = s.size_ THEN Ok(m, s)
  ELSE IF n < s.size_ THEN ResizeShrink(m, s, n)
  ELSE IF n <= s.capacity_ THEN ResizeInPlace(m, s, n, Temp(DefaultVal), fail)
  ELSE ResizeGrow(m, s, n, Temp(DefaultVal), afail, fail)

\* Reserve that asks for twice the capacity it was given.
ReserveDoubles(m, s, c, afail, fail) ==
  IF ~(s.capacity_ < c) THEN Ok(m, s)
  ELSE IF afail THEN Threw(AllocateThrows(m), s)
  ELSE
    LET new_buff == NewBlockId(m)
        mv == MoveIterTo(Allocate(m, c * 2), s.buffer_, s.size_, new_buff, fail)
    IN IF mv.threw THEN Threw(mv.m, s)
       ELSE Ok(Deallocate(DestroyRange(mv.m, s.buffer_, 0, s.size_),
                          s.buffer_, s.capacity_),
               [s EXCEPT !.buffer_ = new_buff, !.capacity_ = c * 2])

\* void Reserve(size_t capacity): new_buff is local to the try block, so the
\* catch block restores capacity_ and buffer_ and rethrows without it.
Reserve(m, s, c, afail, fail) ==
  IF ~(s.capacity_ < c) THEN Ok(m, s)
  ELSE IF afail THEN Threw(AllocateThrows(m), s)
  ELSE
    LET new_buff == NewBlockId(m)
        mv == MoveIterTo(Allocate(m, c), s.buffer_, s.size_, new_buff, fail)
    IN IF mv.threw THEN Threw(mv.m, s)
       ELSE Ok(Deallocate(DestroyRange(mv.m, s.buffer_, 0, s.size_),
                          s.buffer_, s.capacity_),
               [s EXCEPT !.buffer_ = new_buff, !.capacity_ = c])

\* void ShrinkToFit()
ShrinkToFit(m, s, afail, fail) ==
  IF s.size_ = 0
  THEN Ok(Deallocate(m, s.buffer_, s.capacity_),
          [s EXCEPT !.buffer_ = NULL, !.capacity_ = s.size_])
  ELSE IF afail THEN Threw(AllocateThrows(m), s)
  ELSE
    LET new_buff == NewBlockId(m)
        mv == MoveIterTo(Allocate(m, s.size_), s.buffer_, s.size_, new_buff, fail)
    IN IF mv.threw THEN Threw(mv.m, s)
       ELSE Ok(Deallocate(DestroyRange(mv.m, s.buffer_, 0, s.size_),
                          s.buffer_, s.capacity_),
               [s EXCEPT !.buffer_ = new_buff, !.capacity_ = s.size_])

\* EmplaceBack, size_ < capacity_: construct in place; the catch block
\* destroys buffer_ + size_, the slot whose construction threw.
EmplaceInPlace(m, s, arg, fail) ==
  IF Throws(m, fail)
  THEN Threw(Destroy(ConstructThrows(m), s.buffer_, s.size_), s)
  ELSE Ok(Construct(m, s.buffer_, s.size_, ArgVal(m, arg)),
          [s EXCEPT !.size_ = @ + 1])

\* EmplaceBack, capacity_ == 0: allocate(1) outside the try block.
EmplaceFirst(m, s, arg, afail, fail) ==
  IF afail THEN Threw(AllocateThrows(m), s)
  ELSE
    LET buff == NewBlockId(m)
        m1 == Allocate(m, 1)
    IN IF Throws(m1, fail)
       THEN Threw(Deallocate(Destroy(ConstructThrows(m1), buff, s.size_),
                             buff, 1),
                  s)
       ELSE Ok(Construct(m1, buff, s.size_, ArgVal(m1, arg)),
               [buffer_ |-> buff, size_ |-> s.size_ + 1, capacity_ |-> 1])

\* The growing branch of EmplaceBack with a block of capacity_ + 1 slots in
\* place of capacity_ * 2.
EmplaceGrowByOne(m, s, arg, afail, fail) ==
  IF afail THEN Threw(AllocateThrows(m), s)
  ELSE
    LET new_buff == NewBlockId(m)
        m1 == Allocate(m, s.capacity_ + 1)
        cthrew == Throws(m1, fail)
        m2 == IF cthrew THEN ConstructThrows(m1)
              ELSE Construct(m1, new_buff, s.size_, ArgVal(m1, arg))
        mv == MoveIterTo(m2, s.buffer_, s.size_, new_buff, fail)
        bad == IF cthrew THEN m2 ELSE mv.m
    IN IF cthrew \/ mv.threw
       THEN Threw(Deallocate(Destroy(bad, new_buff, s.size_),
                             new_buff, s.capacity_ + 1),
                  s)
       ELSE Ok(Deallocate(DestroyRange(mv.m, s.buffer_, 0, s.size_),
                          s.buffer_, s.capacity_),
               [buffer_ |-> new_buff, size_ |-> s.size_ + 1,
                capacity_ |-> s.capacity_ + 1])

\* The growing branch of EmplaceBack migrating the old elements before it
\* constructs the new one from its argument.
EmplaceGrowMigratesFirst(m, s, arg, afail, fail) ==
  IF afail THEN Threw(AllocateThrows(m), s)
  ELSE
    LET new_buff == NewBlockId(m)
        mv == MoveIterTo(Allocate(m, s.capacity_ * 2), s.buffer_, s.size_,
                         new_buff, fail)
        cthrew == ~mv.threw /\ Throws(mv.m, fail)
        m2 == IF mv.threw THEN mv.m
              ELSE IF cthrew THEN ConstructThrows(mv.m)
              ELSE Construct(mv.m, new_buff, s.size_, ArgVal(mv.m, arg))
    IN IF cthrew \/ mv.threw
       THEN Threw(Deallocate(Destroy(m2, new_buff, s.size_),
                             new_buff, s.capacity_ * 2),
                  s)
       ELSE Ok(Deallocate(DestroyRange(m2, s.buffer_, 0, s.size_),
                          s.buffer_, s.capacity_),
               [buffer_ |-> new_buff, size_ |-> s.size_ + 1,
                capacity_ |-> s.capacity_ * 2])

\* EmplaceBack, size_ == capacity_ > 0: allocate(capacity_ * 2) outside the
\* try block, construct the new element at new_buff + size_, migrate, release
\* the old block.  The catch block destroys new_buff + size_ and deallocates
\* the new block.
EmplaceGrow(m, s, arg, afail, fail) ==
  IF afail THEN Threw(AllocateThrows(m), s)
  ELSE
    LET new_buff == NewBlockId(m)
        m1 == Allocate(m, s.capacity_ * 2)
        cthrew == Throws(m1, fail)
        m2 == IF cthrew THEN ConstructThrows(m1)
              ELSE Construct(m1, new_buff, s.size_, ArgVal(m1, arg))
        mv == MoveIterTo(m2, s.buffer_, s.size_, new_buff, fail)
        bad == IF cthrew THEN m2 ELSE mv.m
    IN IF cthrew \/ mv.threw
       THEN Threw(Deallocate(Destroy(bad, new_buff, s.size_),
                             new_buff, s.capacity_ * 2),
                  s)
       ELSE Ok(Deallocate(DestroyRange(mv.m, s.buffer_, 0, s.size_),
                          s.buffer_, s.capacity_),
               [buffer_ |-> new_buff, size_ |-> s.size_ + 1,
                capacity_ |-> s.capacity_ * 2])

\* template <class... Args> void EmplaceBack(Args&&... args)
EmplaceBack(m, s, arg, afail, fail) ==
  IF s.size_ < s.capacity_ THEN EmplaceInPlace(m, s, arg, fail)
  ELSE IF s.capacity_ = 0 THEN EmplaceFirst(m, s, arg, afail, fail)
  ELSE EmplaceGrow(m, s, arg, afail, fail)

\* void PushBack(const T& value) / void PushBack(T&& value)
PushBack(m, s, arg, afail, fail) == EmplaceBack(m, s, arg, afail, fail)

\* ------------------------------------------------------------- the program
\* Element sequences a caller can pass: initializer lists and ranges.
\* A program with one container is explored to MaxSize elements and MaxCap
\* slots, a program with two to PairMaxSize and PairMaxCap.
SizeLimit == IF solo THEN MaxSize ELSE PairMaxSize

CapLimit == IF solo THEN MaxCap ELSE PairMaxCap

RECURSIVE SeqsUpTo(_)
SeqsUpTo(n) ==
  IF n = 0 THEN {<<>>}
  ELSE LET shorter == SeqsUpTo(n - 1)
       IN shorter \cup {Append(q, x) : q \in {r \in shorter : Len(r) = n - 1},
                                        x \in Values}

SoloLists == SeqsUpTo(MaxSize)

PairLists == SeqsUpTo(PairMaxSize)

Lists == IF solo THEN SoloLists ELSE PairLists

\* Where an operation can be made to fail: the fail-th construct call throws
\* (0: none does), and the allocator throws when it has no block of n slots
\* left to give.
\* The allocator can still give a block of n slots (n = 0: none is asked for).
CanAlloc(n) ==
  n = 0 \/ (FreeIds(heap) # {} /\ n <= CapLimit)

\* <<afail, fail>>: the allocator throws (afail), or the fail-th construct
\* call of the operation does (fail = 0: none), for an operation that asks
\* the allocator for n slots and makes at most k construct calls.
Faults(n, k) ==
  {<<TRUE, 0>>} \cup (IF CanAlloc(n) THEN {<<FALSE, f>> : f \in 0..k} ELSE {})

\* The inputs under which result r came about, each once: the allocator is
\* not told to throw on a call that is never made (unless it has nothing to
\* give), nor an element constructor on a call that is never made.
Inputs(r, n, ft) ==
  /\ ft[1] => (r.m.cause = "alloc" \/ ~CanAlloc(n))
  /\ ft[2] # 0 => r.m.cause \in {"ctor", "move"}

UbOutcomes(r) == IF r.m.raw \/ r.m.mis \/ r.m.dbl THEN BOOLEAN ELSE {FALSE}

\* The arguments a caller can pass for const T& value when calling a member
\* of s: a value of its own, or one of the container's elements.
Args(s) == {Temp(x) : x \in Values} \cup
           {Ref(s.buffer_, i) : i \in 0..(s.size_ - 1)}

\* The blocks some container points at.
Owned(vs) == {vs[x].buffer_ : x \in Vecs} \ {NULL}

\* Blocks that are allocated and that no container points at any more.
Unowned(h, vs) == LiveIds(h) \ Owned(vs)

\* The heap the program can still reach.  A block nothing points at can never
\* be released or read again: the operation that lost it reports it as leaked
\* and its id is reused.
Reachable(h, vs) == [b \in Blocks |-> IF b \in Owned(vs) THEN h[b] ELSE FreeBlock]

RECURSIVE SumConstructed(_, _)
SumConstructed(h, bs) ==
  IF bs = {} THEN 0
  ELSE LET b == CHOOSE x \in bs : TRUE
       IN Constructed(h[b]) + SumConstructed(h, bs \ {b})

NoOp == [op |-> "none", v |-> 0, path |-> "", res |-> "ok", arg |-> Raw,
         idx |-> 0, self |-> FALSE,
         na |-> 0, nc |-> 0, nd |-> 0, nm |-> 0, lost |-> 0, leak |-> 0,
         raw |-> FALSE, mis |-> FALSE, dbl |-> FALSE, cause |-> "none"]

\* What the operation that just ran did: its calls to the allocator, the
\* constructed elements that went away undestroyed (with a block that was
\* deallocated or leaked) and the blocks it leaked.
Report(op, v, path, r, vs, arg) ==
  [op |-> op, v |-> v, path |-> path, res |-> r.res, arg |-> arg,
   idx |-> 0, self |-> FALSE,
   na |-> r.m.na, nc |-> r.m.nc, nd |-> r.m.nd, nm |-> r.m.nm,
   lost |-> r.m.lost + SumConstructed(r.m.h, Unowned(r.m.h, vs)),
   leak |-> Cardinality(Unowned(r.m.h, vs)),
   raw |-> r.m.raw, mis |-> r.m.mis, dbl |-> r.m.dbl, cause |-> r.m.cause]

\* The state an operation leaves behind: containers vs over heap r.m.h.  The
\* report keeps the size_t argument the call was given (idx) and whether
\* its const T& argument referred to an element of the container itself
\* (self).
PublishWith(op, v, path, r, vs, arg, idx, self) ==
  /\ vec' = vs
  /\ heap' = Reachable(r.m.h, vs)
  /\ last' = [Report(op, v, path, r, vs, arg) EXCEPT !.idx = idx, !.self = self]

Publish(op, v, path, r, vs, arg) ==
  PublishWith(op, v, path, r, vs, arg, 0, FALSE)

\* The caller is between two calls: the previous call has returned (or
\* thrown) and its report has been read.  A crashed process makes no call.
Ready == last = NoOp

\* Behaviour the language leaves undefined.  A write through a null or
\* out-of-block pointer ends the process.  Destroying a slot that holds no
\* object, or deallocating with a count or block the allocator never gave,
\* either goes unnoticed or ends the process.
Crashes(r, ub) == r.m.wild \/ ub

Crash(op, v, path, r) ==
  /\ last' = [NoOp EXCEPT !.op = op, !.v = v, !.path = path, !.res = "crash"]
  /\ UNCHANGED <<vec, alive, heap, moveSteals, solo, log>>

Impure == [pure |-> FALSE, vals |-> <<>>]

\* A member of v has run with result r.
CommitWith(op, v, path, r, ub, arg, idx, self) ==
  IF Crashes(r, ub) THEN Crash(op, v, path, r)
  ELSE /\ PublishWith(op, v, path, r, [vec EXCEPT ![v] = r.s], arg, idx, self)
       /\ log' = [log EXCEPT ![v] =
                    IF op = "PushBack" /\ r.res = "ok" /\ log[v].pure
                    THEN [pure |-> TRUE, vals |-> Append(log[v].vals, arg)]
                    ELSE IF op = "At" THEN log[v] ELSE Impure]
       /\ UNCHANGED <<alive, moveSteals, solo>>

Commit(op, v, path, r, ub, arg) ==
  CommitWith(op, v, path, r, ub, arg, 0, FALSE)

\* A member of v taking Vector& / Vector&& w has run with result r.
Commit2(op, v, w, r, ub) ==
  IF Crashes(r, ub) THEN Crash(op, v, "", r)
  ELSE /\ Publish(op, v, "", r, [vec EXCEPT ![v] = r.s, ![w] = r.o], Raw)
       /\ log' = [x \in Vecs |-> Impure]
       /\ UNCHANGED <<alive, moveSteals, solo>>

\* A constructor of v has run with result r; a constructor that throws
\* leaves no object.
Born(op, v, r, ub) ==
  IF Crashes(r, ub) THEN Crash(op, v, "", r)
  ELSE /\ Publish(op, v, "", r, [vec EXCEPT ![v] = r.s], Raw)
       /\ alive' = [alive EXCEPT ![v] = (r.res = "ok")]
       /\ log' = [log EXCEPT ![v] =
                    IF op = "Vector()" THEN [pure |-> TRUE, vals |-> <<>>]
                    ELSE Impure]
       /\ UNCHANGED <<moveSteals, solo>>

\* A program that has default-constructed its containers: both of them, or
\* (solo) the first one only.
Start(one) ==
  /\ vec = [v \in Vecs |-> EmptyVec]
  /\ alive = [v \in Vecs |-> (v = 1 \/ ~one)]
  /\ heap = [b \in Blocks |-> FreeBlock]
  /\ moveSteals \in BOOLEAN
  /\ solo = one
  /\ last = NoOp
  /\ log = [v \in Vecs |-> [pure |-> (v = 1 \/ ~one), vals |-> <<>>]]

Init == Start(FALSE)

InitSolo == Start(TRUE)

\* The slots each operation asks the allocator for (0: it makes no request).
ListNeed(lst) == Len(lst)

RangeNeed(rng) == Len(rng) * 2

CopyNeed(o) == IF o.size_ = 0 THEN 0 ELSE o.capacity_

ResizeNeed(s, n) == IF n > s.capacity_ THEN n * 2 ELSE 0

ReserveNeed(s, c) == IF s.capacity_ < c THEN c ELSE 0

ShrinkNeed(s) == s.size_

EmplaceNeed(s) ==
  IF s.size_ < s.capacity_ THEN 0
  ELSE IF s.capacity_ = 0 THEN 1
  ELSE s.capacity_ * 2

\* Vector() noexcept = default
NewDefault(v) ==
  /\ Ready /\ ~alive[v]
  /\ Born("Vector()", v, Ok(NewMachine(heap), EmptyVec), FALSE)

NewInitList(v) ==
  /\ Ready /\ ~alive[v]
  /\ \E lst \in Lists :
     \E ft \in Faults(ListNeed(lst), Len(lst)) :
       \E r \in {VectorInitList(NewMachine(heap), lst, ft[1], ft[2])} :
          /\ Inputs(r, ListNeed(lst), ft)
          /\ \E ub \in UbOutcomes(r) : Born("Vector(init_lst)", v, r, ub)

NewInitListRv(v) ==
  /\ Ready /\ ~alive[v]
  /\ \E lst \in Lists :
     \E ft \in Faults(ListNeed(lst), Len(lst)) :
       \E r \in {VectorInitListRv(NewMachine(heap), lst, ft[1], ft[2])} :
          /\ Inputs(r, ListNeed(lst), ft)
          /\ \E ub \in UbOutcomes(r) : Born("Vector(init_lst&&)", v, r, ub)

NewRange(v) ==
  /\ Ready /\ ~alive[v]
  /\ \E rng \in Lists :
     \E ft \in Faults(RangeNeed(rng), Len(rng)) :
       \E r \in {VectorRange(NewMachine(heap), rng, ft[1], ft[2])} :
          /\ Inputs(r, RangeNeed(rng), ft)
          /\ \E ub \in UbOutcomes(r) : Born("Vector(begin,end)", v, r, ub)

NewCopy(v) ==
  /\ Ready /\ ~alive[v] /\ alive[Other(v)]
  /\ \E ft \in Faults(CopyNeed(vec[Other(v)]), vec[Other(v)].size_) :
       \E r \in {VectorCopy(NewMachine(heap), vec[Other(v)], ft[1], ft[2])} :
          /\ Inputs(r, CopyNeed(vec[Other(v)]), ft)
          /\ \E ub \in UbOutcomes(r) : Born("Vector(const Vector&)", v, r, ub)

NewMove(v) ==
  /\ Ready /\ ~alive[v] /\ alive[Other(v)]
  /\ \E r \in {VectorMove(NewMachine(heap), vec[Other(v)])} :
        /\ Publish("Vector(Vector&&)", v, "", r,
                   [vec EXCEPT ![v] = r.s, ![Other(v)] = r.o], Raw)
        /\ alive' = [alive EXCEPT ![v] = TRUE]
        /\ log' = [x \in Vecs |-> Impure]
        /\ UNCHANGED <<moveSteals, solo>>

NewSize(v) ==
  /\ Ready /\ ~alive[v]
  /\ \E n \in 0..SizeLimit :
     \E ft \in Faults(n, n) :
       \E r \in {VectorSize(NewMachine(heap), n, ft[1], ft[2])} :
          /\ Inputs(r, n, ft)
          /\ \E ub \in UbOutcomes(r) : Born("Vector(size)", v, r, ub)

NewSizeValue(v) ==
  /\ Ready /\ ~alive[v]
  /\ \E n \in 0..SizeLimit, x \in Values :
     \E ft \in Faults(n, n) :
       \E r \in {VectorSizeValue(NewMachine(heap), n, Temp(x), ft[1], ft[2])} :
          /\ Inputs(r, n, ft)
          /\ \E ub \in UbOutcomes(r) : Born("Vector(size,value)", v, r, ub)

Destruct(v) ==
  /\ Ready /\ alive[v]
  /\ \E r \in {Dtor(NewMachine(heap), vec[v])} :
        \E ub \in UbOutcomes(r) :
          IF Crashes(r, ub) THEN Crash("~Vector", v, "", r)
          ELSE /\ Publish("~Vector", v, "", r, [vec EXCEPT ![v] = r.s], Raw)
               /\ alive' = [alive EXCEPT ![v] = FALSE]
               /\ log' = [log EXCEPT ![v] = Impure]
               /\ UNCHANGED <<moveSteals, solo>>

\* Which branch of Resize a call takes.
ResizePath(s, n) ==
  IF n = s.size_ THEN "same"
  ELSE IF n < s.size_ THEN "shrink"
  ELSE IF n <= s.capacity_ THEN "inplace"
  ELSE "grow"

\* Which branch of EmplaceBack a call takes.
EmplacePath(s) ==
  IF s.size_ < s.capacity_ THEN "inplace"
  ELSE IF s.capacity_ = 0 THEN "first"
  ELSE "grow"

\* v = w; with w = v the guard this != &other skips the body.
CallCopyAssign(v) ==
  /\ Ready /\ alive[v]
  /\ \E w \in Vecs :
     \E ft \in Faults(CopyNeed(vec[w]), vec[w].size_) :
       /\ alive[w]
       /\ \E r \in {IF w = v THEN Ok(NewMachine(heap), vec[v])
                   ELSE CopyAssign(NewMachine(heap), vec[v], vec[w], ft[1], ft[2])} :
             /\ Inputs(r, CopyNeed(vec[w]), ft)
             /\ \E ub \in UbOutcomes(r) :
                  Commit("operator=(const Vector&)", v,
                         IF w = v THEN "self" ELSE "other", r, ub, Raw)

CallMoveAssign(v) ==
  /\ Ready /\ alive[v] /\ alive[Other(v)]
  /\ \E r \in {MoveAssign(NewMachine(heap), vec[v], vec[Other(v)])} :
        \E ub \in UbOutcomes(r) :
          Commit2("operator=(Vector&&)", v, Other(v), r, ub)

CallSwap(v) ==
  /\ Ready /\ alive[v] /\ alive[Other(v)]
  /\ Commit2("Swap", v, Other(v),
             Swap(NewMachine(heap), vec[v], vec[Other(v)]), FALSE)

CallClear(v) ==
  /\ Ready /\ alive[v]
  /\ \E r \in {Clear(NewMachine(heap), vec[v])} :
        \E ub \in UbOutcomes(r) : Commit("Clear", v, "", r, ub, Raw)

CallPopBack(v) ==
  /\ Ready /\ alive[v]
  /\ \E r \in {PopBack(NewMachine(heap), vec[v])} :
        \E ub \in UbOutcomes(r) :
          Commit("PopBack", v, IF vec[v].size_ = 0 THEN "empty" ELSE "pop",
                 r, ub, Raw)

CallAt(v) ==
  /\ Ready /\ alive[v]
  /\ \E idx \in 0..SizeLimit :
       \E r \in {At(NewMachine(heap), vec[v], idx)} :
          CommitWith("At", v, IF idx >= vec[v].size_ THEN "out" ELSE "in",
                     r, FALSE, r.val, idx, FALSE)

CallResize(v) ==
  /\ Ready /\ alive[v]
  /\ \E n \in 0..SizeLimit :
     \E ft \in Faults(ResizeNeed(vec[v], n), n) :
       \E r \in {Resize(NewMachine(heap), vec[v], n, ft[1], ft[2])} :
          /\ Inputs(r, ResizeNeed(vec[v], n), ft)
          /\ \E ub \in UbOutcomes(r) :
               CommitWith("Resize", v, ResizePath(vec[v], n), r, ub, Raw,
                          n, FALSE)

CallResizeValue(v) ==
  /\ Ready /\ alive[v]
  /\ \E n \in 0..SizeLimit, arg \in Args(vec[v]) :
     \E ft \in Faults(ResizeNeed(vec[v], n), n) :
       \E r \in {ResizeValue(NewMachine(heap), vec[v], n, arg, ft[1], ft[2])} :
          /\ Inputs(r, ResizeNeed(vec[v], n), ft)
          /\ \E ub \in UbOutcomes(r) :
               CommitWith("Resize(value)", v, ResizePath(vec[v], n), r, ub,
                          ArgVal(NewMachine(heap), arg), n, IsRef(arg))

CallReserve(v) ==
  /\ Ready /\ alive[v]
  /\ \E c \in 0..CapLimit :
     \E ft \in Faults(ReserveNeed(vec[v], c), vec[v].size_) :
       \E r \in {Reserve(NewMachine(heap), vec[v], c, ft[1], ft[2])} :
          /\ Inputs(r, ReserveNeed(vec[v], c), ft)
          /\ \E ub \in UbOutcomes(r) :
               CommitWith("Reserve", v,
                          IF vec[v].capacity_ < c THEN "grow" ELSE "noop",
                          r, ub, Raw, c, FALSE)

CallShrinkToFit(v) ==
  /\ Ready /\ alive[v]
  /\ \E ft \in Faults(ShrinkNeed(vec[v]), vec[v].size_) :
       \E r \in {ShrinkToFit(NewMachine(heap), vec[v], ft[1], ft[2])} :
          /\ Inputs(r, ShrinkNeed(vec[v]), ft)
          /\ \E ub \in UbOutcomes(r) :
               Commit("ShrinkToFit", v,
                      IF vec[v].size_ = 0 THEN "free" ELSE "move", r, ub, Raw)

CallPushBack(v) ==
  /\ Ready /\ alive[v] /\ vec[v].size_ < SizeLimit
  /\ \E arg \in Args(vec[v]) :
     \E ft \in Faults(EmplaceNeed(vec[v]), vec[v].size_ + 1) :
       \E r \in {PushBack(NewMachine(heap), vec[v], arg, ft[1], ft[2])} :
          /\ Inputs(r, EmplaceNeed(vec[v]), ft)
          /\ \E ub \in UbOutcomes(r) :
               CommitWith("PushBack", v, EmplacePath(vec[v]), r, ub,
                          ArgVal(NewMachine(heap), arg), 0, IsRef(arg))

\* The caller takes note of how the call ended and goes on.
Proceed ==
  /\ last # NoOp /\ last.res # "crash"
  /\ last' = NoOp
  /\ UNCHANGED <<vec, alive, heap, moveSteals, solo, log>>

Next ==
  \/ Proceed
  \/ \E v \in Vecs :
    \/ NewDefault(v) \/ NewInitList(v) \/ NewInitListRv(v) \/ NewRange(v)
    \/ NewCopy(v) \/ NewMove(v) \/ NewSize(v) \/ NewSizeValue(v)
    \/ Destruct(v)
    \/ CallCopyAssign(v) \/ CallMoveAssign(v) \/ CallSwap(v)
    \/ CallClear(v) \/ CallPopBack(v) \/ CallAt(v)
    \/ CallResize(v) \/ CallResizeValue(v) \/ CallReserve(v)
    \/ CallShrinkToFit(v) \/ CallPushBack(v)

\* The program with one container: the members that take no other container.
NextSolo ==
  \/ NewDefault(1) \/ NewInitList(1) \/ NewInitListRv(1) \/ NewRange(1)
  \/ NewSize(1) \/ NewSizeValue(1) \/ Destruct(1)
  \/ CallCopyAssign(1)
  \/ CallClear(1) \/ CallPopBack(1) \/ CallAt(1)
  \/ CallResize(1) \/ CallResizeValue(1) \/ CallReserve(1)
  \/ CallShrinkToFit(1) \/ CallPushBack(1)
  \/ Proceed

Spec == Init /\ [][Next]_vars

SpecSolo == InitSolo /\ [][NextSolo]_vars

\* ------------------------------------------------------------- properties
\* The container the last call was made on, and its elements now.
Target == vec[last.v]

\* The call just made on a container left that container as it was: the same
\* block, size and capacity, and the same value at every index.
Untouched(v) ==
  /\ vec'[v] = vec[v]
  /\ Elems(heap', vec'[v]) = Elems(heap, vec[v])

\* C1: between any two public calls, buffer_ is null iff capacity_ == 0.
C1_BufferNullIffNoCapacity ==
  \A v \in Vecs : alive[v] => (vec[v].buffer_ = NULL <=> vec[v].capacity_ = 0)

\* C2: between any two public calls size_ <= capacity_, and in the block the
\* container owns the slots [0, size_) hold constructed elements while the
\* slots [size_, capacity_) hold none.
C2_LiveSlotsAreThePrefix ==
  \A v \in Vecs :
    alive[v] =>
      /\ vec[v].size_ <= vec[v].capacity_
      /\ vec[v].size_ > 0 => IsLive(heap, vec[v].buffer_)
      /\ IsLive(heap, vec[v].buffer_) =>
           /\ vec[v].size_ <= heap[vec[v].buffer_].n
           /\ \A i \in 1..heap[vec[v].buffer_].n :
                (heap[vec[v].buffer_].slots[i] # Raw) <=> (i <= vec[v].size_)

\* A call has failed on a container that holds elements and has spare slots.
C2_Witness ==
  /\ last.res = "threw" /\ last.cause = "ctor" /\ last.nd > 0
  /\ alive[last.v]
  /\ 0 < Target.size_ /\ Target.size_ < Target.capacity_
  /\ IsLive(heap, Target.buffer_)

\* C3: a PushBack that has to grow (size_ == capacity_ > 0) and fails leaves
\* size_, capacity_, buffer_ and every element value as they were, and the
\* new block is released.
C3_FailedGrowingPushBackChangesNothing ==
  [][(last'.op = "PushBack" /\ last'.path = "grow" /\ last'.res = "threw")
       => /\ Untouched(last'.v)
          /\ LiveIds(heap') = LiveIds(heap)
          /\ last'.leak = 0]_vars

\* C4: a Resize beyond capacity_ during which an element constructor throws
\* leaves size_, capacity_ and every existing element value as they were.
C4_FailedGrowingResizeChangesNothing ==
  [][(last'.op \in {"Resize", "Resize(value)"} /\ last'.path = "grow"
      /\ last'.res = "threw" /\ last'.cause \in {"ctor", "move"})
       => Untouched(last'.v)]_vars

\* C5: a Reserve beyond capacity_, or a ShrinkToFit, that fails in the
\* allocation or in the migration leaves buffer_, size_, capacity_ and every
\* element value as they were.
C5_FailedReserveOrShrinkChangesNothing ==
  [][(/\ \/ last'.op = "Reserve" /\ last'.path = "grow"
         \/ last'.op = "ShrinkToFit"
      /\ last'.res = "threw")
       => Untouched(last'.v)]_vars

\* C6: every block obtained from the allocator is released exactly once: no
\* call leaves a block behind that no container owns, none deallocates a
\* block twice, and once every container is destroyed no block is allocated.
C6_BlocksReleasedExactlyOnce ==
  /\ last.leak = 0
  /\ ~last.dbl
  /\ (\A v \in Vecs : ~alive[v]) => LiveIds(heap) = {}

\* C7: when the migration into a new block throws, every element already
\* constructed in the new block is destroyed and the old block is untouched.
C7_FailedMigrationCleansUp ==
  [][last'.cause = "move"
       => /\ last'.lost = 0
          /\ Elems(heap', vec'[last'.v]) = Elems(heap, vec[last'.v])]_vars

\* C8: destroy is only invoked on a slot holding a constructed element, and
\* every constructed element is destroyed: none goes away with its block.
C8_ConstructAndDestroyArePaired ==
  /\ ~last.raw
  /\ last.lost = 0
  /\ (\A v \in Vecs : ~alive[v]) => LiveIds(heap) = {}

\* C9: a copy assignment v = other that fails leaves v unmodified (buffer_,
\* size_, capacity_, element values) and other unchanged.
C9_FailedCopyAssignChangesNothing ==
  [][(last'.op = "operator=(const Vector&)" /\ last'.res = "threw")
       => /\ \A x \in Vecs : Untouched(x)
          /\ alive' = alive
          /\ LiveIds(heap') = LiveIds(heap)]_vars

\* A copy assignment onto a non-empty container failed after the first
\* element of other had been copied.
C9_Witness ==
  /\ last.op = "operator=(const Vector&)" /\ last.res = "threw"
  /\ last.cause = "ctor" /\ last.nc >= 2
  /\ Target.size_ > 0
  /\ vec[Other(last.v)].size_ >= 2

\* C10: after successful PushBack calls only, on a container that started
\* empty, size_ is the number of calls and the pushed values sit in call
\* order at the indices 0..size_-1.
C10_PushedValuesInCallOrder ==
  \A v \in Vecs :
    (alive[v] /\ log[v].pure) =>
      /\ vec[v].size_ = Len(log[v].vals)
      /\ Elems(heap, vec[v]) = log[v].vals

\* Three values were pushed, not all equal, across two reallocations.
C10_Witness ==
  /\ log[1].pure /\ Len(log[1].vals) = 3
  /\ log[1].vals[1] # log[1].vals[2]
  /\ vec[1].capacity_ = 4

\* The capacity a container has after n PushBack calls from empty: 0, then
\* the smallest of 1, 2, 4, 8, ... that holds n elements.
RECURSIVE DoublingFrom(_, _)
DoublingFrom(c, n) == IF n <= c THEN c ELSE DoublingFrom(c * 2, n)

DoublingCapacity(n) == IF n = 0 THEN 0 ELSE DoublingFrom(1, n)

\* C11: a successful PushBack adds one element and changes capacity_ only
\* when size_ == capacity_ before the call: capacity_ becomes 1 if it was 0
\* and otherwise doubles; when size_ < capacity_ the capacity and the buffer
\* are unchanged.  Pushing onto a container that started empty, capacity_
\* therefore runs through 1, 2, 4, ...
C11_PushBackDoublesCapacityWhenFull ==
  /\ [][(last'.op = "PushBack" /\ last'.res = "ok")
         => LET s == vec[last'.v]
                t == vec'[last'.v]
            IN /\ t.size_ = s.size_ + 1
               /\ IF s.size_ = s.capacity_
                  THEN /\ t.capacity_ = IF s.capacity_ = 0 THEN 1
                                        ELSE s.capacity_ * 2
                       /\ last'.na = 1
                  ELSE /\ t.capacity_ = s.capacity_
                       /\ t.buffer_ = s.buffer_
                       /\ last'.na = 0]_vars
  /\ [](\A v \in Vecs :
         (alive[v] /\ log[v].pure) =>
            vec[v].capacity_ = DoublingCapacity(Len(log[v].vals)))

\* A PushBack onto a full block of two slots has succeeded: capacity_ is 4.
C11_Witness ==
  /\ last.op = "PushBack" /\ last.res = "ok" /\ last.path = "grow"
  /\ Target.size_ = 3 /\ Target.capacity_ = 4

\* bool operator==(const Vector& lhs, const Vector& rhs)
OperatorEq(h, lhs, rhs) ==
  /\ lhs.size_ = rhs.size_
  /\ \A i \in 1..lhs.size_ : Elems(h, lhs)[i] = Elems(h, rhs)[i]

\* The members that take a second container by non-const reference.
TakesOther == {"Vector(Vector&&)", "operator=(Vector&&)", "Swap"}

\* C12: copy-constructing w from v yields w == v and leaves v as it was; w
\* and v own independent storage: two containers never own the same block,
\* and a call made on one of them (other than a move or swap handing it to the
\* other) never changes the size, capacity or element values of the other.
C12_CopyIsEqualAndIndependent ==
  /\ [][(last'.op = "Vector(const Vector&)" /\ last'.res = "ok")
         => /\ OperatorEq(heap', vec'[last'.v], vec'[Other(last'.v)])
            /\ Elems(heap', vec'[last'.v]) = Elems(heap, vec[Other(last'.v)])
            /\ Untouched(Other(last'.v))]_vars
  /\ [](\A v \in Vecs :
         (alive[v] /\ alive[Other(v)] /\ vec[v].buffer_ # NULL)
            => vec[v].buffer_ # vec[Other(v)].buffer_)
  /\ [][(last'.op # "none" /\ last'.op \notin TakesOther)
         => Untouched(Other(last'.v))]_vars

\* A container holding two different values has been copied.
C12_Witness ==
  /\ last.op = "Vector(const Vector&)" /\ last.res = "ok"
  /\ Target.size_ = 2
  /\ Elems(heap, Target)[1] # Elems(heap, Target)[2]
  /\ Target.buffer_ # NULL

\* C13: move construction and move assignment from a container hand over
\* its block untouched: afterwards the source is empty (null buffer_, size_
\* and capacity_ 0) and still alive, the target has the source's former
\* buffer_, size_, capacity_ and elements, and no element was constructed or
\* moved.  In a move assignment the target's previous elements are destroyed
\* and its previous block is released, once.
C13_MoveTransfersOwnership ==
  [][(last'.op \in {"Vector(Vector&&)", "operator=(Vector&&)"}
      /\ last'.res = "ok")
       => LET t == last'.v
              o == Other(last'.v)
          IN /\ vec'[o] = EmptyVec /\ alive'[o] /\ alive'[t]
             /\ vec'[t] = vec[o]
             /\ Elems(heap', vec'[t]) = Elems(heap, vec[o])
             /\ vec[o].buffer_ # NULL => heap'[vec[o].buffer_] = heap[vec[o].buffer_]
             /\ last'.nc = 0 /\ last'.nm = 0 /\ last'.na = 0
             /\ last'.nd = (IF last'.op = "operator=(Vector&&)"
                            THEN vec[t].size_ ELSE 0)
             /\ last'.op = "operator=(Vector&&)" =>
                  /\ vec[t].buffer_ # NULL => ~IsLive(heap', vec[t].buffer_)
                  /\ ~last'.dbl /\ ~last'.raw /\ ~last'.mis
                  /\ last'.lost = 0 /\ last'.leak = 0]_vars

\* A container holding elements has been move-assigned another that holds
\* elements.
C13_Witness ==
  /\ last.op = "operator=(Vector&&)" /\ last.res = "ok"
  /\ last.nd >= 1
  /\ Target.size_ >= 1
  /\ vec[Other(last.v)] = EmptyVec /\ alive[Other(last.v)]

\* C14: Reserve(c) with c <= capacity_ is a no-op: buffer_, size_, capacity_
\* and the element values are unchanged and the allocator is not called.  A
\* Reserve(c) with c > capacity_ that succeeds sets capacity_ to exactly c, in
\* a block of c slots, and leaves size_ and every element value unchanged.
C14_ReserveIsExactOrNoOp ==
  [][last'.op = "Reserve"
       => LET s == vec[last'.v]
              t == vec'[last'.v]
          IN /\ last'.path = "noop" <=> last'.idx <= s.capacity_
             /\ last'.path = "noop" =>
                  /\ last'.res = "ok"
                  /\ Untouched(last'.v)
                  /\ heap' = heap
                  /\ last'.na = 0 /\ last'.nc = 0 /\ last'.nd = 0
             /\ (last'.path = "grow" /\ last'.res = "ok") =>
                  /\ t.capacity_ = last'.idx
                  /\ IsLive(heap', t.buffer_)
                  /\ heap'[t.buffer_].n = t.capacity_
                  /\ t.size_ = s.size_
                  /\ Elems(heap', t) = Elems(heap, s)
                  /\ last'.na = 1]_vars

\* A Reserve past capacity_ has moved two different values to a new block.
C14_Witness ==
  /\ last.op = "Reserve" /\ last.path = "grow" /\ last.res = "ok"
  /\ last.nm = 2
  /\ Target.size_ = 2 /\ Target.capacity_ > 2
  /\ Elems(heap, Target)[1] # Elems(heap, Target)[2]

\* C15: a successful ShrinkToFit leaves capacity_ == size_, with the block
\* released and buffer_ null when size_ == 0, and the element values
\* unchanged; ShrinkToFit on a container that is already fitted (capacity_ ==
\* size_, as the first call leaves it) is a no-op: it succeeds and leaves
\* size_, capacity_, element values and the storage block unchanged.
C15_ShrinkToFitIsIdempotent ==
  [][last'.op = "ShrinkToFit"
       => LET s == vec[last'.v]
              t == vec'[last'.v]
          IN /\ last'.res = "ok" =>
                  /\ t.capacity_ = t.size_ /\ t.size_ = s.size_
                  /\ Elems(heap', t) = Elems(heap, s)
                  /\ s.size_ = 0 => /\ t.buffer_ = NULL
                                    /\ ~IsLive(heap', s.buffer_)
             /\ s.capacity_ = s.size_ =>
                  /\ last'.res = "ok"
                  /\ Untouched(last'.v)
                  /\ heap' = heap]_vars

\* The calls that ask for no more elements than the container holds.
Shrinks(l) ==
  \/ l.op \in {"Clear", "PopBack"}
  \/ l.op \in {"Resize", "Resize(value)"} /\ l.path \in {"same", "shrink"}

\* The size a shrinking call asks for.
ShrunkSize(l, s) ==
  IF l.op = "Clear" THEN 0
  ELSE IF l.op = "PopBack" THEN (IF s.size_ = 0 THEN 0 ELSE s.size_ - 1)
  ELSE l.idx

\* C16: shrinking never reallocates.  Clear(), Resize(n) and Resize(n, value)
\* with n <= size_, and PopBack() succeed, leave capacity_ and buffer_
\* unchanged, make no allocate, construct or move call, destroy exactly the
\* elements at [new size, old size) and leave the remaining values as they
\* were; PopBack on an empty container changes nothing.
C16_ShrinkingNeverReallocates ==
  [][Shrinks(last')
       => LET s == vec[last'.v]
              t == vec'[last'.v]
          IN /\ last'.res = "ok"
             /\ t.size_ = ShrunkSize(last', s)
             /\ t.capacity_ = s.capacity_ /\ t.buffer_ = s.buffer_
             /\ last'.na = 0 /\ last'.nc = 0 /\ last'.nm = 0
             /\ last'.nd = s.size_ - t.size_
             /\ ~last'.raw /\ last'.lost = 0 /\ last'.leak = 0
             /\ LiveIds(heap') = LiveIds(heap)
             /\ \A i \in 1..s.size_ :
                  heap'[s.buffer_].slots[i] =
                    (IF i <= t.size_ THEN heap[s.buffer_].slots[i] ELSE Raw)
             /\ s.size_ = 0 => heap' = heap]_vars

\* A Resize has cut three elements down to one inside a block with room for
\* more.
C16_Witness ==
  /\ last.op \in {"Resize", "Resize(value)"} /\ last.path = "shrink"
  /\ last.res = "ok" /\ last.nd = 2
  /\ Target.size_ = 1 /\ Target.capacity_ > 3

\* C17: a successful Resize(n) or Resize(n, value) with n > size_ keeps the
\* first old-size elements, in order, sets size_ to n and makes the elements
\* at [old size, n) default-constructed or equal to value; capacity_ is
\* unchanged when n <= capacity_ and exactly 2 * n, in a block of 2 * n slots,
\* when n > capacity_.
C17_ResizeGrowthFillsAndDoubles ==
  [][(/\ last'.op \in {"Resize", "Resize(value)"}
      /\ last'.path \in {"inplace", "grow"}
      /\ last'.res = "ok")
       => LET s == vec[last'.v]
              t == vec'[last'.v]
              n == last'.idx
              fill == IF last'.op = "Resize" THEN DefaultVal ELSE last'.arg
          IN /\ n > s.size_ /\ t.size_ = n
             /\ \A i \in 1..n :
                  Elems(heap', t)[i] =
                    (IF i <= s.size_ THEN Elems(heap, s)[i] ELSE fill)
             /\ IF n <= s.capacity_
                THEN /\ last'.path = "inplace"
                     /\ t.capacity_ = s.capacity_ /\ t.buffer_ = s.buffer_
                     /\ last'.na = 0
                ELSE /\ last'.path = "grow"
                     /\ t.capacity_ = 2 * n
                     /\ IsLive(heap', t.buffer_)
                     /\ heap'[t.buffer_].n = 2 * n
                     /\ last'.na = 1]_vars

\* Resize(3, 2) has grown a one-element container past its capacity.
C17_Witness ==
  /\ last.op = "Resize(value)" /\ last.path = "grow" /\ last.res = "ok"
  /\ last.nm = 1 /\ last.arg = 2
  /\ Target.size_ = 3 /\ Target.capacity_ = 6
  /\ Elems(heap, Target)[1] = 1

\* C18: At(i) throws OutOfRange exactly when i >= size_ (so for every i on
\* an empty container) and otherwise returns the element at index i; either
\* way buffer_, size_, capacity_ and the elements are unchanged.
C18_AtThrowsExactlyOutOfRange ==
  [][last'.op = "At"
       => LET s == vec[last'.v]
          IN /\ last'.res \in {"ok", "threw"}
             /\ last'.res = "threw" <=> last'.idx >= s.size_
             /\ last'.res = "ok" =>
                  /\ last'.arg = Elems(heap, s)[last'.idx + 1]
                  /\ last'.arg # Raw
             /\ Untouched(last'.v)
             /\ heap' = heap /\ vec' = vec /\ alive' = alive
             /\ last'.na = 0 /\ last'.nc = 0 /\ last'.nd = 0
             /\ last'.nm = 0]_vars

\* At(size_) has thrown on a container that holds elements.
C18_Witness ==
  /\ last.op = "At" /\ last.res = "threw"
  /\ Target.size_ >= 1 /\ last.idx = Target.size_

\* C19: every deallocate call a member makes, on its success path, in its
\* catch blocks and in the destructor, passes a null block or a block the
\* allocator gave together with the element count it was allocated with.
C19_DeallocatePassesAllocatedCount ==
  ~last.mis /\ ~last.dbl

\* C20: appending or filling from an element of the same container is safe
\* across reallocation.  With size_ == capacity_ > 0, PushBack(v[i]) appends
\* the value v[i] had before the call, and with n > capacity_, Resize(n, v[i])
\* fills [old size, n) with it, the old elements keeping their values: the
\* new elements are constructed before any old element is moved or destroyed
\* (a throwing constructor finds the old block untouched), and the old block
\* is released only once every construction has succeeded.
C20_OwnElementSurvivesReallocation ==
  [][(/\ last'.op \in {"PushBack", "Resize(value)"}
      /\ last'.path = "grow" /\ last'.self)
       => LET s == vec[last'.v]
              t == vec'[last'.v]
          IN /\ last'.arg \in {Elems(heap, s)[i] : i \in 1..s.size_}
             /\ last'.res = "ok" =>
                  /\ t.size_ > s.size_ /\ t.buffer_ # s.buffer_
                  /\ \A i \in 1..t.size_ :
                       Elems(heap', t)[i] =
                         (IF i <= s.size_ THEN Elems(heap, s)[i] ELSE last'.arg)
                  /\ ~IsLive(heap', s.buffer_)
             /\ last'.cause \in {"alloc", "ctor"} =>
                  /\ last'.nm = 0
                  /\ Untouched(last'.v)
                  /\ heap'[s.buffer_] = heap[s.buffer_]
             /\ last'.res = "threw" =>
                  /\ t = s
                  /\ IsLive(heap', s.buffer_)]_vars

\* PushBack(v[i]) has reallocated a full container of two different values
\* whose move constructor empties its source.
C20_Witness ==
  /\ last.op = "PushBack" /\ last.path = "grow" /\ last.self
  /\ last.res = "ok" /\ last.nm = 2 /\ moveSteals
  /\ Target.size_ = 3
  /\ Elems(heap, Target)[1] # Elems(heap, Target)[2]
  /\ Elems(heap, Target)[3] = last.arg

====
